---- MODULE Spec2Model ----
(***************************************************************************)
(* A model of ion/agents/platform/platform_driver.py: the PlatformDriver   *)
(* base class, its driver events, and a concrete driver subclass that      *)
(* supplies the operations the base class only declares.                   *)
(*                                                                         *)
(* One driver instance is modelled.  Its Python fields are the variables   *)
(* whose names start with an underscore.  cls says whether the instance is *)
(* of the base class itself (every declared operation raises) or of a      *)
(* concrete subclass (declared operations behave as section 4 of the       *)
(* specification describes; those parts are not in the source file).       *)
(***************************************************************************)
EXTENDS Naturals, Sequences, FiniteSets

VARIABLES
    cls,                      \* class of the instance: "PlatformDriver" or "ConcreteDriver"
    _platform_id,             \* self._platform_id
    _driver_config,           \* self._driver_config
    _parent_platform_id,      \* self._parent_platform_id
    _send_event,              \* self._send_event: None or a listener
    _topology,                \* self._topology: None or Some(dict)
    _agent_device_map,        \* self._agent_device_map
    _agent_streamconfig_map,  \* self._agent_streamconfig_map
    _nnode,                   \* self._nnode: None or Some(node)
    monitoring,               \* concrete driver: monitoring greenlets are running
    alarm_dispatch,           \* concrete driver: alarm dispatch is running
    warnings,                 \* number of records written with log.warn
    last,                     \* the last call made on the driver and its outcome
    delivering,               \* background tasks inside a listener call
    notified,                 \* notify calls of the tasks, a listener being set
    received,                 \* what the listener was called with, in order
    clock                     \* timestamp of the newest sample or alarm

fields == <<_platform_id, _driver_config, _parent_platform_id, _send_event,
            _topology, _agent_device_map, _agent_streamconfig_map, _nnode>>

tasks == <<monitoring, alarm_dispatch>>

history == <<notified, received, clock>>

background == <<delivering, notified, received, clock>>

vars == <<cls, _platform_id, _driver_config, _parent_platform_id, _send_event,
          _topology, _agent_device_map, _agent_streamconfig_map, _nnode,
          monitoring, alarm_dispatch, warnings, last,
          delivering, notified, received, clock>>

----------------------------------------------------------------------------
(* Bounds *)

\* log.warn records counted before the model stops dropping events
MaxWarnings == 2

\* listener calls by the background tasks before they stop producing
MaxReceived == 3

\* the largest timestamp of a sample or alarm
MaxTs == 2

----------------------------------------------------------------------------
(* Python values *)

\* Python's None, and a value that is not None.  Optional values are wrapped
\* so that None compares with every kind of value.
None == <<>>

Some(x) == <<x>>

TheValue(opt) == opt[1]

\* Platform ids of the modelled platform network
PlatformIds == {"P1", "P1a", "P1b"}

\* Constructor arguments (platform_id, driver_config, parent_platform_id)
ConstructorArgs ==
    { [platform_id |-> "P1",  driver_config |-> "cfg", parent_platform_id |-> None],
      [platform_id |-> "P1a", driver_config |-> "cfg", parent_platform_id |-> Some("P1")] }

\* Event listeners (callables) an owner may register
Listeners == {"L1", "L2"}

\* Values set_event_listener may be given
ListenerValues == Listeners \cup {"None"}

\* Optional auxiliary maps given to set_topology
DeviceMaps == {None, Some("device_map")}

StreamConfigMaps == {None, Some("streamconfig_map")}

\* class DriverEvent and its subclasses
DriverEventClasses == {"DriverEvent", "AttributeValueDriverEvent", "AlarmDriverEvent"}

\* DriverEvent.__init__(ts)
DriverEvent(ts) == [cls |-> "DriverEvent", ts |-> ts, payload |-> "-"]

\* AttributeValueDriverEvent.__init__(ts, platform_id, attr_id, value)
AttributeValueDriverEvent(ts, platform_id, attr_id, value) ==
    [cls |-> "AttributeValueDriverEvent", ts |-> ts, payload |-> attr_id]

\* AlarmDriverEvent.__init__(ts, alarm_type, alarm_instance)
AlarmDriverEvent(ts, alarm_type, alarm_instance) ==
    [cls |-> "AlarmDriverEvent", ts |-> ts, payload |-> alarm_type]

\* A value that is not a DriverEvent
NotAnEvent == [cls |-> "str", ts |-> 0, payload |-> "-"]

\* Arguments _notify_driver_event is called with
EventValues ==
    { DriverEvent(1),
      AttributeValueDriverEvent(1, "P1", "temp", 7),
      AlarmDriverEvent(2, "power", "a1"),
      NotAnEvent }

\* Mutant: the argument is not checked
isinstance_anything(driver_event) == TRUE

\* isinstance(driver_event, DriverEvent)
isinstance_DriverEvent(driver_event) == driver_event.cls \in DriverEventClasses

\* Mutant: the test of the listener is inverted
Truthy_inverted(evt_recv) == evt_recv = "None"

\* Truth value of self._send_event in "if self._send_event:"
Truthy(evt_recv) == evt_recv # "None"

----------------------------------------------------------------------------
(* Topologies *)

\* The parent/child pairs a topology of the modelled network may declare
Edges == {<<"P1", "P1a">>, <<"P1", "P1b">>, <<"P1a", "P1b">>}

\* A declarative topology: every platform id with its declared children
Dicts ==
    {T \in [PlatformIds -> SUBSET PlatformIds] :
        \A p \in PlatformIds : \A c \in T[p] : <<p, c>> \in Edges}

RECURSIVE Below(_, _, _)
Below(T, S, k) ==
    IF k = 0 THEN S ELSE Below(T, S \cup UNION {T[x] : x \in S}, k - 1)

\* All ids below id in T
Descendants(T, id) == Below(T, T[id], Cardinality(PlatformIds))

\* No cycles, and no id declared as the child of two platforms
WellFormed(T) ==
    /\ \A id \in PlatformIds : id \notin Descendants(T, id)
    /\ \A c \in PlatformIds : Cardinality({p \in PlatformIds : c \in T[p]}) <= 1

Topologies == {T \in Dicts : WellFormed(T)}

\* The node tree rooted at id: each node owns its sub-platform nodes
RECURSIVE BuildNode(_, _)
BuildNode(T, id) ==
    [platform_id |-> id, subplatforms |-> [c \in T[id] |-> BuildNode(T, c)]]

----------------------------------------------------------------------------
(* Outcomes of a call *)

Returned(op, arg, ret, delivered) ==
    [op |-> op, arg |-> arg, outcome |-> "ok", err |-> "-", ret |-> ret,
     delivered |-> delivered]

Raised(op, arg, err, delivered) ==
    [op |-> op, arg |-> arg, outcome |-> "raise", err |-> err, ret |-> None,
     delivered |-> delivered]

----------------------------------------------------------------------------
(* PlatformDriver.__init__ *)

Init ==
    /\ cls \in {"PlatformDriver", "ConcreteDriver"}
    /\ \E a \in ConstructorArgs :
          /\ _platform_id = a.platform_id
          /\ _driver_config = a.driver_config
          /\ _parent_platform_id = a.parent_platform_id
    /\ _send_event = "None"
    /\ _topology = None
    /\ _agent_device_map = None
    /\ _agent_streamconfig_map = None
    /\ _nnode = None
    /\ monitoring = FALSE
    /\ alarm_dispatch = FALSE
    /\ warnings = 0
    /\ last = Returned("__init__", None, None, <<>>)
    /\ delivering = {}
    /\ notified = <<>>
    /\ received = <<>>
    /\ clock = 0

----------------------------------------------------------------------------
(* Concrete operations of the base class *)

\* The arguments of a set_topology call
TopologyArgs(topology, agent_device_map, agent_streamconfig_map) ==
    Some([topology |-> topology, agent_device_map |-> agent_device_map,
          agent_streamconfig_map |-> agent_streamconfig_map])

\* Mutant: the topology is accepted once, a later call is rejected
set_topology_once(topology, agent_device_map, agent_streamconfig_map) ==
    /\ IF _topology = None
       THEN /\ _topology' = Some(topology)
            /\ _agent_device_map' = agent_device_map
            /\ _agent_streamconfig_map' = agent_streamconfig_map
            /\ last' = Returned("set_topology",
                                TopologyArgs(topology, agent_device_map,
                                             agent_streamconfig_map), None, <<>>)
       ELSE /\ last' = Raised("set_topology",
                              TopologyArgs(topology, agent_device_map,
                                           agent_streamconfig_map),
                              "InvalidStateError", <<>>)
            /\ UNCHANGED <<_topology, _agent_device_map, _agent_streamconfig_map>>
    /\ UNCHANGED <<background, cls, _platform_id, _driver_config, _parent_platform_id,
                   _send_event, _nnode, tasks, warnings>>

\* Mutant: a new topology discards the resolved node
set_topology_resets_node(topology, agent_device_map, agent_streamconfig_map) ==
    /\ _topology' = Some(topology)
    /\ _agent_device_map' = agent_device_map
    /\ _agent_streamconfig_map' = agent_streamconfig_map
    /\ _nnode' = None
    /\ last' = Returned("set_topology",
                        TopologyArgs(topology, agent_device_map,
                                     agent_streamconfig_map), None, <<>>)
    /\ UNCHANGED <<background, cls, _platform_id, _driver_config, _parent_platform_id,
                   _send_event, tasks, warnings>>

\* Mutant: the device map is assigned to the driver configuration
set_topology_overwrites_config(topology, agent_device_map, agent_streamconfig_map) ==
    /\ _topology' = Some(topology)
    /\ _driver_config' = IF agent_device_map = None THEN _driver_config
                         ELSE TheValue(agent_device_map)
    /\ _agent_device_map' = agent_device_map
    /\ _agent_streamconfig_map' = agent_streamconfig_map
    /\ last' = Returned("set_topology",
                        TopologyArgs(topology, agent_device_map,
                                     agent_streamconfig_map), None, <<>>)
    /\ UNCHANGED <<background, cls, _platform_id, _parent_platform_id,
                   _send_event, _nnode, tasks, warnings>>

\* Mutant: an omitted map leaves the stored map of an earlier call
set_topology_keeps_maps(topology, agent_device_map, agent_streamconfig_map) ==
    /\ _topology' = Some(topology)
    /\ _agent_device_map' = IF agent_device_map = None THEN _agent_device_map
                            ELSE agent_device_map
    /\ _agent_streamconfig_map' = IF agent_streamconfig_map = None
                                  THEN _agent_streamconfig_map
                                  ELSE agent_streamconfig_map
    /\ last' = Returned("set_topology",
                        TopologyArgs(topology, agent_device_map,
                                     agent_streamconfig_map), None, <<>>)
    /\ UNCHANGED <<background, cls, _platform_id, _driver_config, _parent_platform_id,
                   _send_event, _nnode, tasks, warnings>>

set_topology(topology, agent_device_map, agent_streamconfig_map) ==
    /\ _topology' = Some(topology)
    /\ _agent_device_map' = agent_device_map
    /\ _agent_streamconfig_map' = agent_streamconfig_map
    /\ last' = Returned("set_topology",
                        TopologyArgs(topology, agent_device_map,
                                     agent_streamconfig_map), None, <<>>)
    /\ UNCHANGED <<background, cls, _platform_id, _driver_config, _parent_platform_id,
                   _send_event, _nnode, tasks, warnings>>

\* Mutant: a listener already registered is kept
set_event_listener_first_wins(evt_recv) ==
    /\ _send_event' = IF Truthy(_send_event) THEN _send_event ELSE evt_recv
    /\ last' = Returned("set_event_listener", Some(evt_recv), None, <<>>)
    /\ UNCHANGED <<background, cls, _platform_id, _driver_config, _parent_platform_id,
                   _topology, _agent_device_map, _agent_streamconfig_map,
                   _nnode, tasks, warnings>>

set_event_listener(evt_recv) ==
    /\ _send_event' = evt_recv
    /\ last' = Returned("set_event_listener", Some(evt_recv), None, <<>>)
    /\ UNCHANGED <<background, cls, _platform_id, _driver_config, _parent_platform_id,
                   _topology, _agent_device_map, _agent_streamconfig_map,
                   _nnode, tasks, warnings>>

\* Mutant: the ids of every node below, not only of the direct children
RECURSIVE subplatform_keys_all(_)
subplatform_keys_all(node) ==
    DOMAIN node.subplatforms
        \cup UNION {subplatform_keys_all(node.subplatforms[c]) :
                        c \in DOMAIN node.subplatforms}

\* self._nnode.subplatforms.keys()
subplatform_keys(node) == DOMAIN node.subplatforms

\* Mutant: without the assertion, an unresolved node yields no ids
get_subplatform_ids_no_assert ==
    /\ last' = Returned("get_subplatform_ids", None,
                        Some(IF _nnode = None THEN {}
                             ELSE subplatform_keys(TheValue(_nnode))), <<>>)
    /\ UNCHANGED <<background, cls, fields, tasks, warnings>>

\* Mutant: an unresolved node is resolved from the topology on demand
get_subplatform_ids_lazy ==
    /\ _nnode' = IF _nnode = None /\ _topology # None
                 THEN Some(BuildNode(TheValue(_topology), _platform_id))
                 ELSE _nnode
    /\ last' = IF _nnode' = None
               THEN Raised("get_subplatform_ids", None, "AssertionError", <<>>)
               ELSE Returned("get_subplatform_ids", None,
                             Some(subplatform_keys(TheValue(_nnode'))), <<>>)
    /\ UNCHANGED <<background, cls, _platform_id, _driver_config, _parent_platform_id,
                   _send_event, _topology, _agent_device_map,
                   _agent_streamconfig_map, tasks, warnings>>

get_subplatform_ids ==
    /\ last' = IF _nnode = None
               THEN Raised("get_subplatform_ids", None, "AssertionError", <<>>)
               ELSE Returned("get_subplatform_ids", None,
                             Some(subplatform_keys(TheValue(_nnode))), <<>>)
    /\ UNCHANGED <<background, cls, fields, tasks, warnings>>

\* Mutant: the listener is called twice
callback_invocations_twice(evt_recv, driver_event) ==
    <<[listener |-> evt_recv, event |-> driver_event],
      [listener |-> evt_recv, event |-> driver_event]>>

\* self._send_event(driver_event): the listener is called once with the event
callback_invocations(evt_recv, driver_event) ==
    <<[listener |-> evt_recv, event |-> driver_event]>>

\* Mutant: the dropped event leaves no record
log_warn_nothing(n) == n

\* log.warn(...): one more record in the log
log_warn(n) == n + 1

_notify_driver_event(driver_event) ==
    /\ IF ~isinstance_DriverEvent(driver_event)
       THEN /\ last' = Raised("_notify_driver_event", Some(driver_event),
                              "AssertionError", <<>>)
            /\ UNCHANGED warnings
       ELSE IF Truthy(_send_event)
       THEN /\ \E callback_raises \in BOOLEAN :
                 last' = IF callback_raises
                         THEN Raised("_notify_driver_event", Some(driver_event),
                                     "ListenerError",
                                     callback_invocations(_send_event, driver_event))
                         ELSE Returned("_notify_driver_event", Some(driver_event),
                                       None,
                                       callback_invocations(_send_event, driver_event))
            /\ UNCHANGED warnings
       ELSE /\ warnings < MaxWarnings
            /\ warnings' = log_warn(warnings)
            /\ last' = Returned("_notify_driver_event", Some(driver_event), None, <<>>)
    /\ UNCHANGED <<background, cls, fields, tasks>>

----------------------------------------------------------------------------
(* Operations the base class declares and a subclass implements.  Each    *)
(* X_call(res) is what a call self.X() does to the driver and how it ends  *)
(* (res), by the class of the instance.                                    *)

Ok == [outcome |-> "ok", err |-> "-"]

Err(e) == [outcome |-> "raise", err |-> e]

Outcomes == {Ok} \cup {Err(e) : e \in {"TypeError", "ConnectionError",
                                       "InvalidStateError"}}

\* The record of a call that ended as res
Ended(op, res, ret) ==
    [op |-> op, arg |-> None, outcome |-> res.outcome, err |-> res.err,
     ret |-> IF res = Ok THEN ret ELSE None, delivered |-> <<>>]

\* Mutant: the declared operation is an empty method that returns
base_returns(res) == res = Ok

\* "raise NotImplemented()" in the base class: NotImplemented is not
\* callable, so the statement raises TypeError
base_raise(res) == res = Err("TypeError")

\* A concrete request to the external platform: an answer, or no connection
concrete_request(res) == res \in {Ok, Err("ConnectionError")}

\* Concrete go_active: resolves the node tree rooted at the driver's own
\* platform id, from the topology if one was set, else from the platform
\* network; the node is assigned once
concrete_go_active(res) ==
    \/ /\ res = Err("ConnectionError")
       /\ UNCHANGED _nnode
    \/ /\ _nnode # None
       /\ res = Err("InvalidStateError")
       /\ UNCHANGED _nnode
    \/ /\ _nnode = None
       /\ res = Ok
       /\ \E T \in (IF _topology = None THEN Topologies ELSE {TheValue(_topology)}) :
             _nnode' = Some(BuildNode(T, _platform_id))

go_active_call(res) ==
    IF cls = "PlatformDriver"
    THEN base_raise(res) /\ UNCHANGED _nnode
    ELSE concrete_go_active(res)

\* Concrete start of a background task: needs the activated driver;
\* starting what is started is a no-op
concrete_start(res, running) ==
    IF _nnode = None
    THEN res = Err("InvalidStateError") /\ running' = running
    ELSE res = Ok /\ running' = TRUE

\* Concrete stop of a background task: the task is cancelled and joined, also
\* inside a listener call; stopping what is stopped is a no-op
concrete_stop(res, running, task) ==
    /\ res = Ok
    /\ running' = FALSE
    /\ delivering' = delivering \ {task}

start_resource_monitoring_call(res) ==
    IF cls = "PlatformDriver"
    THEN base_raise(res) /\ UNCHANGED monitoring
    ELSE concrete_start(res, monitoring)

\* Mutant: the subclass does not override the declared operation
stop_resource_monitoring_not_overridden(res) ==
    base_raise(res) /\ UNCHANGED <<monitoring, delivering>>

stop_resource_monitoring_call(res) ==
    IF cls = "PlatformDriver"
    THEN base_raise(res) /\ UNCHANGED <<monitoring, delivering>>
    ELSE concrete_stop(res, monitoring, "monitor")

start_alarm_dispatch_call(res) ==
    IF cls = "PlatformDriver"
    THEN base_raise(res) /\ UNCHANGED alarm_dispatch
    ELSE concrete_start(res, alarm_dispatch)

stop_alarm_dispatch_call(res) ==
    IF cls = "PlatformDriver"
    THEN base_raise(res) /\ UNCHANGED <<alarm_dispatch, delivering>>
    ELSE concrete_stop(res, alarm_dispatch, "alarm")

\* A request that changes no field: ping, get_metadata, get_attribute_values,
\* set_attribute_values, get_ports, set_up_port
request_call(res) ==
    IF cls = "PlatformDriver" THEN base_raise(res) ELSE concrete_request(res)

request(op, ret) ==
    /\ \E res \in Outcomes :
          /\ request_call(res)
          /\ last' = Ended(op, res, Some(ret))
    /\ UNCHANGED <<background, cls, fields, tasks, warnings>>

ping == request("ping", "PONG")

get_metadata == request("get_metadata", "metadata")

get_attribute_values == request("get_attribute_values", "values")

set_attribute_values == request("set_attribute_values", "values")

get_ports == request("get_ports", "ports")

set_up_port == request("set_up_port", "port")

go_active ==
    /\ \E res \in Outcomes :
          /\ go_active_call(res)
          /\ last' = Ended("go_active", res, None)
    /\ UNCHANGED <<background, cls, _platform_id, _driver_config, _parent_platform_id,
                   _send_event, _topology, _agent_device_map,
                   _agent_streamconfig_map, tasks, warnings>>

start_resource_monitoring ==
    /\ \E res \in Outcomes :
          /\ start_resource_monitoring_call(res)
          /\ last' = Ended("start_resource_monitoring", res, None)
    /\ UNCHANGED <<background, cls, fields, alarm_dispatch, warnings>>

stop_resource_monitoring ==
    /\ \E res \in Outcomes :
          /\ stop_resource_monitoring_call(res)
          /\ last' = Ended("stop_resource_monitoring", res, None)
    /\ UNCHANGED <<history, cls, fields, alarm_dispatch, warnings>>

start_alarm_dispatch ==
    /\ \E res \in Outcomes :
          /\ start_alarm_dispatch_call(res)
          /\ last' = Ended("start_alarm_dispatch", res, None)
    /\ UNCHANGED <<background, cls, fields, monitoring, warnings>>

stop_alarm_dispatch ==
    /\ \E res \in Outcomes :
          /\ stop_alarm_dispatch_call(res)
          /\ last' = Ended("stop_alarm_dispatch", res, None)
    /\ UNCHANGED <<history, cls, fields, monitoring, warnings>>

\* Mutant: destroy rejects a driver whose monitoring is not running
destroy_requires_running ==
    /\ \E res \in Outcomes :
          /\ IF monitoring
             THEN stop_resource_monitoring_call(res)
             ELSE res = Err("InvalidStateError")
                  /\ UNCHANGED <<monitoring, delivering>>
          /\ last' = Ended("destroy", res, None)
    /\ UNCHANGED <<history, cls, fields, alarm_dispatch, warnings>>

\* destroy: self.stop_resource_monitoring(), and nothing else; what that call
\* raises leaves destroy
destroy ==
    /\ \E res \in Outcomes :
          /\ stop_resource_monitoring_call(res)
          /\ last' = Ended("destroy", res, None)
    /\ UNCHANGED <<history, cls, fields, alarm_dispatch, warnings>>

----------------------------------------------------------------------------

Next ==
    \/ \E T \in Topologies, dm \in DeviceMaps, sm \in StreamConfigMaps :
          set_topology(T, dm, sm)
    \/ \E evt_recv \in ListenerValues : set_event_listener(evt_recv)
    \/ ping
    \/ go_active
    \/ get_metadata
    \/ get_attribute_values
    \/ set_attribute_values
    \/ get_ports
    \/ set_up_port
    \/ get_subplatform_ids
    \/ start_resource_monitoring
    \/ stop_resource_monitoring
    \/ destroy
    \/ \E driver_event \in EventValues : _notify_driver_event(driver_event)
    \/ start_alarm_dispatch
    \/ stop_alarm_dispatch

Spec == Init /\ [][Next]_vars

----------------------------------------------------------------------------
(* The background tasks of an activated concrete driver: the monitoring    *)
(* greenlet and the alarm dispatch greenlet.  Each hands its events to     *)
(* _notify_driver_event; a listener call may yield to the other greenlet   *)
(* and to the owner before it ends.                                        *)

Tasks == {"monitor", "alarm"}

Running(t) == IF t = "monitor" THEN monitoring ELSE alarm_dispatch

\* The listener calls of one notify, with the task that made them
TaskInvocations(t, invocations) ==
    [i \in DOMAIN invocations |-> [task |-> t, event |-> invocations[i].event]]

\* Task t calls self._notify_driver_event(driver_event)
task_notify(t, driver_event) ==
    /\ Running(t)
    /\ t \notin delivering
    /\ Len(received) < MaxReceived
    /\ isinstance_DriverEvent(driver_event)
    /\ notified' = IF _send_event = "None" THEN notified
                   ELSE Append(notified, [task |-> t, event |-> driver_event])
    /\ IF Truthy(_send_event)
       THEN /\ received' = received \o
                   TaskInvocations(t, callback_invocations(_send_event, driver_event))
            /\ delivering' = delivering \cup {t}
            /\ UNCHANGED warnings
       ELSE /\ warnings < MaxWarnings
            /\ warnings' = log_warn(warnings)
            /\ UNCHANGED <<received, delivering>>
    /\ UNCHANGED <<cls, fields, tasks, last>>

\* Timestamps a new sample or alarm may carry: not before the newest one
NextTimestamps == {ts \in {clock, clock + 1} : ts <= MaxTs}

\* The monitoring greenlet retrieves a value of attribute "temp" and notifies
monitoring_sample ==
    \E ts \in NextTimestamps :
       /\ clock' = ts
       /\ task_notify("monitor",
                      AttributeValueDriverEvent(ts, _platform_id, "temp", 7))

\* The alarm dispatch greenlet receives an alarm and notifies
alarm_received ==
    \E ts \in NextTimestamps :
       /\ clock' = ts
       /\ task_notify("alarm", AlarmDriverEvent(ts, "power", "a1"))

\* The listener call made by task t ends: it returns, or it raises.  A task
\* whose listener call raised is let go on, which only adds behaviours.
callback_ends(t) ==
    /\ t \in delivering
    /\ delivering' = delivering \ {t}
    /\ UNCHANGED <<cls, fields, tasks, warnings, last, history>>

\* An activated concrete driver with a listener registered: the state after
\* set_topology, set_event_listener and go_active
InitTasks ==
    /\ cls = "ConcreteDriver"
    /\ _platform_id = "P1"
    /\ _driver_config = "cfg"
    /\ _parent_platform_id = None
    /\ _send_event = "L1"
    /\ \E T \in Topologies :
          /\ T["P1"] = {"P1a", "P1b"}
          /\ _topology = Some(T)
          /\ _nnode = Some(BuildNode(T, "P1"))
    /\ _agent_device_map = None
    /\ _agent_streamconfig_map = None
    /\ monitoring = FALSE
    /\ alarm_dispatch = FALSE
    /\ warnings = 0
    /\ last = Ended("go_active", Ok, None)
    /\ delivering = {}
    /\ notified = <<>>
    /\ received = <<>>
    /\ clock = 0

NextTasks ==
    \/ \E evt_recv \in Listeners : set_event_listener(evt_recv)
    \/ start_resource_monitoring
    \/ stop_resource_monitoring
    \/ start_alarm_dispatch
    \/ stop_alarm_dispatch
    \/ destroy
    \/ monitoring_sample
    \/ alarm_received
    \/ \E t \in Tasks : callback_ends(t)

SpecTasks == InitTasks /\ [][NextTasks]_vars

----------------------------------------------------------------------------
(* Properties *)

Concrete == cls = "ConcreteDriver"

\* The step is a call of op
Called(op) == last'.op = op

\* node is the tree that topology T declares below node.platform_id
RECURSIVE NodeMatches(_, _)
NodeMatches(node, T) ==
    /\ DOMAIN node.subplatforms = T[node.platform_id]
    /\ \A c \in DOMAIN node.subplatforms :
          /\ node.subplatforms[c].platform_id = c
          /\ NodeMatches(node.subplatforms[c], T)

\* The resolved node is the tree of the stored topology, rooted at the
\* driver's own platform
ResolvedFromTopology ==
    /\ _topology # None
    /\ _nnode # None
    /\ TheValue(_nnode).platform_id = _platform_id
    /\ NodeMatches(TheValue(_nnode), TheValue(_topology))

\* C1: while the node is unresolved (go_active has not completed), a call of
\* get_subplatform_ids() raises the assertion error "go_active should have
\* been called first", returns no ids and changes nothing of the driver.
C1_GetSubplatformIdsNeedsActivation ==
    [][(Called("get_subplatform_ids") /\ _nnode = None)
          => /\ last'.outcome = "raise"
             /\ last'.err = "AssertionError"
             /\ last'.ret = None
             /\ UNCHANGED <<cls, fields, tasks, warnings>>]_vars

C1_Witness ==
    /\ last.op = "get_subplatform_ids"
    /\ last.err = "AssertionError"
    /\ _nnode = None
    /\ _topology # None

\* C2: a successful go_active() with a topology T set resolves the tree whose
\* child ids at every node are those T declares, rooted at the driver's own
\* platform id; and on that tree get_subplatform_ids() returns exactly T's
\* children of the driver's platform id.
C2_ResolvedTreeMatchesTopology ==
    [][/\ (Called("go_active") /\ last'.outcome = "ok" /\ _topology # None)
             => ResolvedFromTopology'
       /\ (Called("get_subplatform_ids") /\ ResolvedFromTopology)
             => /\ last'.outcome = "ok"
                /\ last'.ret = Some(TheValue(_topology)[_platform_id])]_vars

C2_Witness ==
    /\ last.op = "get_subplatform_ids"
    /\ _platform_id = "P1"
    /\ _topology # None
    /\ TheValue(_topology)["P1"] = {"P1a", "P1b"}
    /\ ResolvedFromTopology
    /\ last.ret = Some({"P1a", "P1b"})

C4_NotifyDeliversOnce ==
    [][(/\ Called("_notify_driver_event")
        /\ Truthy(_send_event)
        /\ isinstance_DriverEvent(TheValue(last'.arg)))
          => last'.delivered =
                <<[listener |-> _send_event, event |-> TheValue(last'.arg)]>>]_vars

C4_Witness ==
    /\ last.op = "_notify_driver_event"
    /\ last.outcome = "ok"
    /\ last.delivered =
          <<[listener |-> "L1",
             event |-> AttributeValueDriverEvent(1, "P1", "temp", 7)]>>

\* C5: with no listener registered, a call of notify with a driver event
\* invokes no callback, writes exactly one warning record, returns without
\* an exception and changes nothing else of the driver.
C5_NotifyWithoutListenerDrops ==
    [][(/\ Called("_notify_driver_event")
        /\ ~Truthy(_send_event)
        /\ isinstance_DriverEvent(TheValue(last'.arg)))
          => /\ last'.delivered = <<>>
             /\ last'.outcome = "ok"
             /\ warnings' = warnings + 1
             /\ UNCHANGED <<cls, fields, tasks>>]_vars

C5_Witness ==
    /\ last.op = "_notify_driver_event"
    /\ last.outcome = "ok"
    /\ last.delivered = <<>>
    /\ _send_event = "None"
    /\ monitoring
    /\ warnings = 1

\* C6: set_event_listener stores the callback it is given, no other
\* operation changes the stored callback, and notify invokes the stored
\* callback and no other.
C6_LastListenerWins ==
    [][/\ Called("set_event_listener") => _send_event' = TheValue(last'.arg)
       /\ ~Called("set_event_listener") => UNCHANGED _send_event
       /\ Called("_notify_driver_event")
             => \A i \in DOMAIN last'.delivered :
                   last'.delivered[i].listener = _send_event]_vars

C6_Witness ==
    /\ last.op = "_notify_driver_event"
    /\ _send_event = "L2"
    /\ Len(last.delivered) = 1
    /\ last.delivered[1].listener = "L2"

\* C7 as claimed: a call of notify in which the listener callback raises
\* still returns normally to its caller.
C7_CallbackFailureIsCaught ==
    (last.op = "_notify_driver_event" /\ last.delivered # <<>>)
        => last.outcome = "ok"

\* C8 as claimed: when destroy() has returned, neither resource monitoring
\* nor alarm dispatch is running.
C8_DestroyStopsMonitoringAndAlarms ==
    (last.op = "destroy" /\ last.outcome = "ok")
        => (~monitoring /\ ~alarm_dispatch)

C11_NoActivationAfterDestroy ==
    [][(last.op = "destroy" /\ last.outcome = "ok" /\ Called("go_active"))
          => /\ last'.outcome = "raise"
             /\ UNCHANGED _nnode]_vars

\* C12 as claimed: at most one listener call is in progress at any time.
C12_DeliverySerialized == Cardinality(delivering) <= 1

\* The tasks a returned call has stopped, as claimed
StoppedBy(op) ==
    CASE op = "stop_resource_monitoring" -> {"monitor"}
      [] op = "stop_alarm_dispatch" -> {"alarm"}
      [] op = "destroy" -> Tasks
      [] OTHER -> {}

\* C13 as claimed: when stop_resource_monitoring(), stop_alarm_dispatch() or
\* destroy() has returned, the tasks it stops are in no listener call and
\* make no further one.
C13_NoDeliveryAfterStop ==
    [][last.outcome = "ok"
          => /\ delivering \cap StoppedBy(last.op) = {}
             /\ \A i \in (Len(received) + 1)..Len(received') :
                   received'[i].task \notin StoppedBy(last.op)]_vars

HeldConstructorArgs ==
    [platform_id |-> _platform_id, driver_config |-> _driver_config,
     parent_platform_id |-> _parent_platform_id]

\* C16: the platform id, the driver configuration and the parent platform
\* id are those given to the constructor, and no step changes them.
C16_ConstructorArgsImmutable ==
    [][/\ HeldConstructorArgs \in ConstructorArgs
       /\ HeldConstructorArgs' = HeldConstructorArgs]_vars

C16_Witness ==
    /\ HeldConstructorArgs =
          [platform_id |-> "P1a", driver_config |-> "cfg",
           parent_platform_id |-> Some("P1")]
    /\ _agent_device_map # None
    /\ _nnode # None
    /\ _send_event = "L1"
    /\ last.op = "destroy"

\* The operations the base class declares and raises in
AbstractOps ==
    {"ping", "go_active", "get_metadata", "get_attribute_values",
     "set_attribute_values", "get_ports", "set_up_port",
     "start_resource_monitoring", "stop_resource_monitoring",
     "start_alarm_dispatch", "stop_alarm_dispatch"}

\* C17: on an instance of the base class every declared operation raises
\* and changes nothing of the driver; the node is never resolved and
\* get_subplatform_ids never returns.
C17_BaseOperationsRaise ==
    [][cls = "PlatformDriver"
          => /\ last'.op \in AbstractOps
                   => /\ last'.outcome = "raise"
                      /\ UNCHANGED <<cls, fields, tasks, warnings>>
             /\ _nnode' = None
             /\ Called("get_subplatform_ids") => last'.outcome = "raise"]_vars

C17_Witness ==
    /\ cls = "PlatformDriver"
    /\ last.op = "go_active"
    /\ last.outcome = "raise"
    /\ _topology # None
    /\ _send_event = "L1"

\* C18: a set_topology call stores its three arguments together; an omitted
\* map is stored as None, whatever an earlier call had stored.
C18_SetTopologyReplacesAllThree ==
    [][Called("set_topology")
          => /\ _topology' = Some(TheValue(last'.arg).topology)
             /\ _agent_device_map' = TheValue(last'.arg).agent_device_map
             /\ _agent_streamconfig_map' =
                   TheValue(last'.arg).agent_streamconfig_map]_vars

C18_Witness ==
    /\ last.op = "set_topology"
    /\ TheValue(last.arg).agent_device_map = None
    /\ TheValue(last.arg).agent_streamconfig_map # None
    /\ _agent_device_map = None
    /\ _agent_streamconfig_map = Some("streamconfig_map")
    /\ _nnode # None

\* C19: set_event_listener changes no field but the listener; set_topology
\* changes no field but the topology and the two maps; notify and
\* get_subplatform_ids change no field.
C19_FrameConditions ==
    [][/\ Called("set_event_listener")
             => UNCHANGED <<_platform_id, _driver_config, _parent_platform_id,
                            _topology, _agent_device_map,
                            _agent_streamconfig_map, _nnode>>
       /\ Called("set_topology")
             => UNCHANGED <<_platform_id, _driver_config, _parent_platform_id,
                            _send_event, _nnode>>
       /\ (Called("_notify_driver_event") \/ Called("get_subplatform_ids"))
             => UNCHANGED fields]_vars

C19_Witness ==
    /\ last.op = "get_subplatform_ids"
    /\ last.outcome = "raise"
    /\ _topology # None
    /\ _agent_device_map # None
    /\ _send_event = "L2"

\* C20: a notify call whose argument is not a DriverEvent raises the
\* assertion error without invoking the listener or writing a warning,
\* registered listener or not; what a listener receives is a DriverEvent.
C20_OnlyDriverEventsDelivered ==
    [][Called("_notify_driver_event")
          => /\ \A i \in DOMAIN last'.delivered :
                   last'.delivered[i].event.cls \in DriverEventClasses
             /\ TheValue(last'.arg).cls \notin DriverEventClasses
                   => /\ last'.outcome = "raise"
                      /\ last'.err = "AssertionError"
                      /\ last'.delivered = <<>>
                      /\ UNCHANGED warnings]_vars

C20_Witness ==
    /\ last.op = "_notify_driver_event"
    /\ last.arg = Some(NotAnEvent)
    /\ last.err = "AssertionError"
    /\ _send_event = "L1"

====
